---- MODULE Spec2Model ----
(***************************************************************************)
(* media_bundler/versioning.py: the bundle versions cache, the generated   *)
(* versions file, and the versioning strategies.                           *)
(*                                                                         *)
(* A Python str is a sequence of one-character strings.  A dict of str to  *)
(* str is a function whose domain is a finite set of such sequences.  Dict *)
(* objects live in a heap and are named by references, because the module  *)
(* passes them around by reference and copies them explicitly.             *)
(***************************************************************************)
EXTENDS Integers, Sequences, FiniteSets, TLC

(***************************************************************************)
(* Bounds of the model.                                                    *)
(***************************************************************************)
\* Strategy objects alive at one time.
NumStrategies == 2
\* chunk_size of get_hash (2**14 in the source), scaled down so that the
\* files of the model span several chunks.
ChunkSize == 2

(***************************************************************************)
(* Python str operations.                                                  *)
(***************************************************************************)
BS == "\\"
SQ == "'"
DQ == "\""
NL == "\n"

Has(s, c) == \E i \in 1..Len(s) : s[i] = c

\* s.rfind(c): the last index of c in s (1-based), 0 when absent.
RFind(s, c) ==
  IF Has(s, c) THEN CHOOSE i \in 1..Len(s) :
                      s[i] = c /\ \A j \in (i+1)..Len(s) : s[j] # c
  ELSE 0

RECURSIVE RStrip(_, _)
\* s.rstrip(c)
RStrip(s, c) ==
  IF Len(s) > 0 /\ s[Len(s)] = c THEN RStrip(SubSeq(s, 1, Len(s) - 1), c)
  ELSE s

\* sep.join(parts)
RECURSIVE Join(_, _)
Join(sep, parts) ==
  IF Len(parts) = 0 THEN <<>>
  ELSE IF Len(parts) = 1 THEN parts[1]
  ELSE parts[1] \o sep \o Join(sep, Tail(parts))

\* A variant that splits at the first c, as str.partition does.
PartitionFirst(s, c) ==
  IF ~Has(s, c) THEN << s, <<>>, <<>> >>
  ELSE LET i == CHOOSE j \in 1..Len(s) :
                  s[j] = c /\ \A k \in 1..(j - 1) : s[k] # c
       IN << SubSeq(s, 1, i - 1), <<c>>, SubSeq(s, i + 1, Len(s)) >>

\* basename.rpartition('.'): <<before the last '.', '.', after it>>.
RPartition(s, c) ==
  LET i == RFind(s, c) IN
  IF i = 0 THEN << <<>>, <<>>, s >>
  ELSE << SubSeq(s, 1, i - 1), <<c>>, SubSeq(s, i + 1, Len(s)) >>

\* posixpath.split(p)
PathSplit(p) ==
  LET i == RFind(p, "/")
      head == SubSeq(p, 1, i)
      tail == SubSeq(p, i + 1, Len(p))
  IN IF Len(head) > 0 /\ \E k \in 1..Len(head) : head[k] # "/"
     THEN << RStrip(head, "/"), tail >>
     ELSE << head, tail >>

\* posixpath.join(a, b)
PathJoin(a, b) ==
  IF Len(b) > 0 /\ b[1] = "/" THEN b
  ELSE IF Len(a) = 0 \/ a[Len(a)] = "/" THEN a \o b
  ELSE a \o <<"/">> \o b

Digit(d) == <<"0", "1", "2", "3", "4", "5", "6", "7", "8", "9",
              "a", "b", "c", "d", "e", "f">>[d + 1]

RECURSIVE Digits(_, _)
Digits(n, base) ==
  IF n < base THEN <<Digit(n)>>
  ELSE Append(Digits(n \div base, base), Digit(n % base))

\* str(n) of a non-negative int
Str(n) == Digits(n, 10)

RECURSIVE HexFixed(_, _)
\* '%0<width>x' % n: lowercase hex, zero padded
HexFixed(n, width) ==
  IF width = 0 THEN <<>>
  ELSE Append(HexFixed(n \div 16, width - 1), Digit(n % 16))

(***************************************************************************)
(* repr(str) of Python 2 (the %r of write_versions) and the string         *)
(* literal the interpreter reads back in execfile.                         *)
(***************************************************************************)
ReprQuote(s) == IF Has(s, SQ) /\ ~Has(s, DQ) THEN DQ ELSE SQ

ReprChar(c, q) ==
  IF c = q \/ c = BS THEN <<BS, c>>
  ELSE IF c = NL THEN <<BS, "n">>
  ELSE <<c>>

RECURSIVE ReprBody(_, _)
ReprBody(s, q) ==
  IF Len(s) = 0 THEN <<>> ELSE ReprChar(s[1], q) \o ReprBody(Tail(s), q)

\* A variant of repr that quotes without escaping: "'%s'" % s
ReprUnescaped(s) == <<SQ>> \o s \o <<SQ>>

Repr(s) == LET q == ReprQuote(s) IN <<q>> \o ReprBody(s, q) \o <<q>>

\* The character(s) an escape sequence \e of a literal stands for.
Unescape(e) ==
  IF e = "n" THEN <<NL>>
  ELSE IF e \in {BS, SQ, DQ} THEN <<e>>
  ELSE <<BS, e>>

ParseFail == [ok |-> FALSE, val |-> <<>>, next |-> 0]

RECURSIVE ScanString(_, _, _, _)
\* The characters of a literal opened by quote q, from index i of text t.
ScanString(t, i, q, acc) ==
  IF i > Len(t) \/ t[i] = NL THEN ParseFail
  ELSE IF t[i] = q THEN [ok |-> TRUE, val |-> acc, next |-> i + 1]
  ELSE IF t[i] = BS
       THEN IF i + 1 > Len(t) THEN ParseFail
            ELSE ScanString(t, i + 2, q, acc \o Unescape(t[i + 1]))
  ELSE ScanString(t, i + 1, q, Append(acc, t[i]))

ParseString(t, i) ==
  IF i <= Len(t) /\ t[i] \in {SQ, DQ} THEN ScanString(t, i + 1, t[i], <<>>)
  ELSE ParseFail

RECURSIVE SkipWs(_, _)
SkipWs(t, i) ==
  IF i <= Len(t) /\ t[i] \in {" ", NL} THEN SkipWs(t, i + 1) ELSE i

(***************************************************************************)
(* dict operations                                                         *)
(***************************************************************************)
EmptyDict == << >>

\* d[k] = v
DictSet(d, k, v) == [x \in DOMAIN d \cup {k} |-> IF x = k THEN v ELSE d[x]]

\* d.update(e), as a value
DictUpdate(d, e) ==
  [x \in DOMAIN d \cup DOMAIN e |-> IF x \in DOMAIN e THEN e[x] ELSE d[x]]

\* The orders in which d.items() may enumerate d.
ItemOrders(d) ==
  LET n == Cardinality(DOMAIN d) IN
  {o \in [1..n -> DOMAIN d] : \A i, j \in 1..n : i # j => o[i] # o[j]}

RECURSIVE ParseDict(_, _, _)
\* The dict display after "{", from index i of t: its entries, until "}".
ParseDict(t, i, acc) ==
  LET a == SkipWs(t, i) IN
  IF a > Len(t) THEN ParseFail
  ELSE IF t[a] = "}" THEN [ok |-> TRUE, val |-> acc, next |-> a + 1]
  ELSE
    LET k == ParseString(t, a) IN
    IF ~k.ok THEN ParseFail
    ELSE
      LET b == SkipWs(t, k.next) IN
      IF b > Len(t) \/ t[b] # ":" THEN ParseFail
      ELSE
        LET v == ParseString(t, SkipWs(t, b + 1)) IN
        IF ~v.ok THEN ParseFail
        ELSE
          LET c == SkipWs(t, v.next)
              acc2 == DictSet(acc, k.val, v.val)
          IN IF c > Len(t) THEN ParseFail
             ELSE IF t[c] = "," THEN ParseDict(t, c + 1, acc2)
             ELSE IF t[c] = "}" THEN [ok |-> TRUE, val |-> acc2, next |-> c + 1]
             ELSE ParseFail

(***************************************************************************)
(* The generated versions file and its execution.                          *)
(***************************************************************************)
\* The constant text write_versions emits before the entries, kept as one
\* symbol of the file's text: the shebang line, the docstring and the
\* opening of the BUNDLE_VERSIONS display.
FileHeader ==
  "#!/usr/bin/env python\n\n\"\"\"\nMedia bundle versions.\n\nDO NOT EDIT!  Module generated by 'manage.py bundle_media'.\n\"\"\"\n\nBUNDLE_VERSIONS = {\n"

\* '    %r: %r,' % (name, vers)
ItemLine(name, vers) ==
  <<" ", " ", " ", " ">> \o Repr(name) \o <<":", " ">> \o Repr(vers) \o <<",">>

\* versions_str: the lines of versions.items() in enumeration order o
VersionsStr(versions, o) ==
  Join(<<NL>>, [i \in 1..Len(o) |-> ItemLine(o[i], versions[o[i]])])

\* The text write_versions writes for `versions`.
FileText(versions, o) ==
  <<FileHeader>> \o VersionsStr(versions, o) \o <<NL, "}", NL>>

\* execfile(text, vars): the exception raised ("none" if none) and
\* vars['BUNDLE_VERSIONS'].  An empty file defines nothing.
ExecFile(text) ==
  IF Len(text) = 0 THEN [raised |-> "KeyError", val |-> EmptyDict]
  ELSE IF text[1] # FileHeader THEN [raised |-> "SyntaxError", val |-> EmptyDict]
  ELSE LET r == ParseDict(text, 2, EmptyDict) IN
       IF r.ok /\ SkipWs(text, r.next) > Len(text)
       THEN [raised |-> "none", val |-> r.val]
       ELSE [raised |-> "SyntaxError", val |-> EmptyDict]

(***************************************************************************)
(* hashlib: md5 and sha1 are stood for by two small rolling digests of     *)
(* different widths; what matters to the module is new/update/hexdigest.   *)
(***************************************************************************)
HashWidth(hash_method) == IF hash_method = "md5" THEN 2 ELSE 3

HashModulus(hash_method) == IF hash_method = "md5" THEN 256 ELSE 4096

HashNew(hash_method) == IF hash_method = "md5" THEN 7 ELSE 11

RECURSIVE HashUpdate(_, _, _)
\* m.update(chunk)
HashUpdate(hash_method, m, chunk) ==
  IF Len(chunk) = 0 THEN m
  ELSE HashUpdate(hash_method,
                  (m * 31 + chunk[1] + 1) % HashModulus(hash_method),
                  Tail(chunk))

\* m.hexdigest()
HexDigest(hash_method, m) == HexFixed(m, HashWidth(hash_method))

Min(a, b) == IF a < b THEN a ELSE b

RECURSIVE get_hash_loop(_, _, _, _, _)
\* The while loop of get_hash: f.read(chunk_size) from position pos.
get_hash_loop(hash_method, content, pos, chunk_size, m) ==
  LET chunk == SubSeq(content, pos + 1, Min(pos + chunk_size, Len(content))) IN
  IF Len(chunk) = 0 THEN HexDigest(hash_method, m)
  ELSE get_hash_loop(hash_method, content, pos + Len(chunk), chunk_size,
                     HashUpdate(hash_method, m, chunk))

\* A variant of get_hash that reads once instead of looping.
get_hash_one_read(hash_method, content, chunk_size) ==
  HexDigest(hash_method,
            HashUpdate(hash_method, HashNew(hash_method),
                       SubSeq(content, 1, Min(chunk_size, Len(content)))))

\* HashVersioningBase.get_hash(f, chunk_size) on a file holding `content`
get_hash(hash_method, content, chunk_size) ==
  get_hash_loop(hash_method, content, 0, chunk_size, HashNew(hash_method))

(***************************************************************************)
(* The collaborators: bundles (name, get_bundle_path(), get_paths()), the  *)
(* file system, and the mappings callers hand to write_versions.           *)
(***************************************************************************)
Bundles ==
  << [name |-> <<"a">>, path |-> <<"d", "/", "a", ".", "c">>,
      paths |-> << <<"s">>, <<"t">> >>],
     [name |-> <<"b">>, path |-> <<"d", "/", "b">>,
      paths |-> << <<"t">> >>],
     [name |-> <<"c">>, path |-> <<"g", ".", "h", ".", "c">>,
      paths |-> << <<"s">> >>],
     [name |-> <<"e", "'">>, path |-> <<"/", ".", "f">>,
      paths |-> << <<"t">>, <<"s">> >>],
     [name |-> <<"f">>, path |-> <<"x", ".", "y", "/", "/", "z", ".">>,
      paths |-> << <<"s">> >>],
     [name |-> <<"g">>, path |-> <<"x", ".", "y", "/", "w">>,
      paths |-> << <<"s">>, <<"t">> >>] >>

\* The bundles one run works on: two bundles of the catalogue.
Registries == {{1, 2}, {3, 4}, {5, 6}}

SourcePaths == {<<"s">>, <<"t">>}

\* The values os.stat(f).st_mtime may take for source file f, in half
\* seconds (3 is 1.5 s, which int() truncates to 1).
MTimes(f) == IF f = <<"s">> THEN {3, 4} ELSE {5}

\* The contents the merge step may give the output file of bundle b, as bytes
Contents(b) ==
  IF b = 1 THEN {<<1>>, <<2, 1, 3>>}
  ELSE IF b \in {3, 5} THEN {<<3, 3, 1, 2, 1>>}
  ELSE {<<>>}

PlainMapping == [k \in {<<"q">>} |-> <<"q", ".", "1", ".", "c">>]

\* Names and values with quotes, a backslash and a newline in them
TrickyMapping ==
  [k \in {<<"e", "'">>, <<"q", DQ, "'">>} |->
     IF k = <<"e", "'">> THEN <<BS, "n">> ELSE <<"x", NL, DQ>>]

\* Mappings a caller may pass to write_versions besides a strategy's own
SampleMappings ==
  { EmptyDict, PlainMapping, TrickyMapping,
    [k \in {<<"q">>, <<BS>>} |-> <<"b", "'", ".", "2">>] }

TextOf(m) == FileText(m, CHOOSE o \in ItemOrders(m) : TRUE)

PlainText == TextOf(PlainMapping)

TrickyText == TextOf(TrickyMapping)

\* Texts another process may have left in the versions file: files this
\* program generated, and an empty file.
ForeignTexts == {<<>>, TextOf(EmptyDict), PlainText}

StrategyNames == {"sha1", "md5", "mtime"}

\* References: one per holder (the global, each strategy, a caller's
\* result) and two for the objects a call creates before the old ones go.
ObjIds == 1..(NumStrategies + 4)

FreeCell == [live |-> FALSE, d |-> EmptyDict]

Cell(d) == [live |-> TRUE, d |-> d]

VARIABLES
  BUNDLE_VERSION_FILE,  \* the setting: "None", "" or the path "versions.py"
  version_file,         \* the file at that path: [readable, text]
  heap,                 \* dict objects by reference
  bundle_versions,      \* the global _bundle_versions: a reference, 0 for None
  strategies,           \* the strategy objects: [cls, versions (a reference)]
  registry,             \* the bundles of this run
  files,                \* regular files as open() sees them: path -> bytes
  st_mtime,             \* os.stat(f).st_mtime of the source files present
  last                  \* the last call: its arguments and how it ended

vars == <<BUNDLE_VERSION_FILE, version_file, heap, bundle_versions, strategies,
          registry, files, st_mtime, last>>

NoStrategy == [cls |-> "none", versions |-> 0]

Call(op, raised) ==
  [op |-> op, raised |-> raised, slot |-> 0, cls |-> "none", bundle |-> 0,
   loaded |-> FALSE, result |-> 0, arg |-> EmptyDict]

\* The references held by the module's global, the strategies and a caller.
Roots(cache, strats, result) ==
  ({cache, result} \cup {strats[i].versions : i \in DOMAIN strats}) \ {0}

\* A reference no holder uses.
Alloc(used) == CHOOSE i \in ObjIds \ used : \A j \in ObjIds \ used : i <= j

\* The references in the order their holders are visited: the global, the
\* strategies, the caller's result.
RootSeq(cache, strats, result) ==
  <<cache>> \o [i \in 1..NumStrategies |-> strats[i].versions] \o <<result>>

\* The name reference r gets when each live object is named after its
\* first holder in RootSeq: which number names an object is not observable
\* in Python, only which holders share one.
Renamed(seq, r) ==
  IF r = 0 THEN 0
  ELSE CHOOSE j \in 1..Len(seq) : seq[j] = r /\ \A k \in 1..(j - 1) : seq[k] # r

\* The state a call leaves: the objects nobody refers to are collected.
Commit(h, cache, strats, call) ==
  LET seq == RootSeq(cache, strats, call.result) IN
  /\ heap' = [i \in ObjIds |->
                IF i <= Len(seq) /\ seq[i] # 0 /\ Renamed(seq, seq[i]) = i
                THEN h[seq[i]] ELSE FreeCell]
  /\ bundle_versions' = Renamed(seq, cache)
  /\ strategies' = [i \in 1..NumStrategies |->
                      [strats[i] EXCEPT !.versions = Renamed(seq, @)]]
  /\ last' = [call EXCEPT !.result = Renamed(seq, @)]

\* The state after import: no cache, no strategy; the settings, the
\* versions file, the bundles and the files on disk are the run's.
InitWith(settings, texts, registries, disks) ==
  /\ BUNDLE_VERSION_FILE \in settings
  /\ version_file \in
       {[readable |-> FALSE, text |-> <<>>]} \cup
       {[readable |-> TRUE, text |-> t] : t \in texts}
  /\ heap = [i \in ObjIds |-> FreeCell]
  /\ bundle_versions = 0
  /\ strategies = [i \in 1..NumStrategies |-> NoStrategy]
  /\ registry \in registries
  /\ \E d \in disks : files = d.files /\ st_mtime = d.st_mtime
  /\ last = Call("init", "none")

(***************************************************************************)
(* update_versions and get_bundle_versions, as outcomes: the exception     *)
(* raised, the new value of the global, the heap, and the value returned.  *)
(***************************************************************************)
\* A variant of update_versions without the except clause: the IOError of a
\* file that cannot be read reaches the caller.
update_versions_uncaught(h, cache, used) ==
  LET new == Alloc(used) IN
  IF BUNDLE_VERSION_FILE = "None"
  THEN [raised |-> "TypeError", cache |-> cache, heap |-> h]
  ELSE IF BUNDLE_VERSION_FILE = "" \/ ~version_file.readable
  THEN [raised |-> "IOError", cache |-> cache, heap |-> h]
  ELSE LET r == ExecFile(version_file.text) IN
       IF r.raised # "none"
       THEN [raised |-> r.raised, cache |-> cache, heap |-> h]
       ELSE [raised |-> "none", cache |-> new,
             heap |-> [h EXCEPT ![new] = Cell(r.val)]]

\* update_versions(): execfile of the versions file into the cache
update_versions(h, cache, used) ==
  LET new == Alloc(used) IN
  IF BUNDLE_VERSION_FILE = "None"
  THEN [raised |-> "TypeError", cache |-> cache, heap |-> h]
  ELSE IF BUNDLE_VERSION_FILE = "" \/ ~version_file.readable
  THEN [raised |-> "none", cache |-> new,
        heap |-> [h EXCEPT ![new] = Cell(EmptyDict)]]
  ELSE LET r == ExecFile(version_file.text) IN
       IF r.raised # "none"
       THEN [raised |-> r.raised, cache |-> cache, heap |-> h]
       ELSE [raised |-> "none", cache |-> new,
             heap |-> [h EXCEPT ![new] = Cell(r.val)]]

\* A variant of get_bundle_versions that reads the file on every call.
get_bundle_versions_uncached(h, cache, used) ==
  LET unset == BUNDLE_VERSION_FILE \in {"None", ""}
      new == Alloc(used)
      u == update_versions(h, cache, used)
  IN IF unset
     THEN [raised |-> "none", cache |-> new,
           heap |-> [h EXCEPT ![new] = Cell(EmptyDict)],
           loaded |-> FALSE, result |-> new]
     ELSE [raised |-> u.raised, cache |-> u.cache, heap |-> u.heap,
           loaded |-> TRUE, result |-> IF u.raised = "none" THEN u.cache ELSE 0]

\* get_bundle_versions()
get_bundle_versions(h, cache, used) ==
  LET unset == BUNDLE_VERSION_FILE \in {"None", ""}
      new == Alloc(used)
      c1 == IF unset THEN new ELSE cache
      h1 == IF unset THEN [h EXCEPT ![new] = Cell(EmptyDict)] ELSE h
  IN IF c1 = 0
     THEN LET u == update_versions(h1, c1, used) IN
          [raised |-> u.raised, cache |-> u.cache, heap |-> u.heap,
           loaded |-> TRUE, result |-> IF u.raised = "none" THEN u.cache ELSE 0]
     ELSE [raised |-> "none", cache |-> c1, heap |-> h1,
           loaded |-> FALSE, result |-> c1]

CurrentRoots == Roots(bundle_versions, strategies, last.result)

\* In the actions, \E over a one-element set names the outcome of the call.
GetBundleVersions ==
  \E r \in {get_bundle_versions(heap, bundle_versions, CurrentRoots)} :
  /\ Commit(r.heap, r.cache, strategies,
            [Call("get_bundle_versions", r.raised) EXCEPT
               !.loaded = r.loaded, !.result = r.result])
  /\ UNCHANGED <<BUNDLE_VERSION_FILE, version_file, registry, files, st_mtime>>

UpdateVersions ==
  \E r \in {update_versions(heap, bundle_versions, CurrentRoots)} :
  /\ Commit(r.heap, r.cache, strategies,
            [Call("update_versions", r.raised) EXCEPT !.loaded = TRUE])
  /\ UNCHANGED <<BUNDLE_VERSION_FILE, version_file, registry, files, st_mtime>>

(***************************************************************************)
(* write_versions                                                          *)
(***************************************************************************)
\* The text written to the file: the entries of versions.items().
written_text(merged, versions, o) == FileText(versions, o)

\* write_versions(versions); o is the order of versions.items(), can_open
\* whether open(BUNDLE_VERSION_FILE, 'w') succeeds.
write_versions(h, cache, used, versions, o, can_open) ==
  IF cache = 0
  THEN [raised |-> "AttributeError", cache |-> cache, heap |-> h,
        file |-> version_file]
  ELSE
    LET new == Alloc(used)
        merged == DictUpdate(h[cache].d, versions)
        h1 == [h EXCEPT ![new] = Cell(merged)]
    IN IF BUNDLE_VERSION_FILE = "None"
       THEN [raised |-> "TypeError", cache |-> new, heap |-> h1,
             file |-> version_file]
       ELSE IF BUNDLE_VERSION_FILE = "" \/ ~can_open
       THEN [raised |-> "IOError", cache |-> new, heap |-> h1,
             file |-> version_file]
       ELSE [raised |-> "none", cache |-> new, heap |-> h1,
             file |-> [readable |-> TRUE,
                       text |-> written_text(merged, versions, o)]]

LiveStrategies == {i \in 1..NumStrategies : strategies[i].cls # "none"}

\* A call write_versions(versions), versions one of `samples` or the
\* mapping of a strategy (write_versions(versioner.versions)).
WriteVersions(samples) ==
  \E versions \in samples \cup
                  {heap[strategies[i].versions].d : i \in LiveStrategies} :
  \E o \in ItemOrders(versions), can_open \in BOOLEAN :
  \E r \in {write_versions(heap, bundle_versions, CurrentRoots,
                             versions, o, can_open)} :
    /\ version_file' = r.file
    /\ Commit(r.heap, r.cache, strategies,
              [Call("write_versions", r.raised) EXCEPT !.arg = versions])
    /\ UNCHANGED <<BUNDLE_VERSION_FILE, registry, files, st_mtime>>

(***************************************************************************)
(* The strategies: VERSIONERS[name]() and update_bundle_version            *)
(***************************************************************************)
\* A variant of __init__ without the copy: self.versions = get_bundle_versions()
init_versions_shared(h, got, used) == [versions |-> got, heap |-> h]

\* VersioningBase.__init__: self.versions = get_bundle_versions().copy()
init_versions(h, got, used) ==
  LET new == Alloc(used) IN
  [versions |-> new, heap |-> [h EXCEPT ![new] = Cell(h[got].d)]]

\* VERSIONERS[cls](), cls one of `classes`, the object kept in one of `slots`
NewStrategy(slots, classes) ==
  \E slot \in slots, cls \in classes :
  \E r \in {get_bundle_versions(heap, bundle_versions, CurrentRoots)} :
  \E call \in {[Call("new_strategy", r.raised) EXCEPT
                  !.loaded = r.loaded, !.slot = slot, !.cls = cls]} :
    /\ IF r.raised = "none"
       THEN \E c \in {init_versions(r.heap, r.result,
                                    CurrentRoots \cup {r.cache, r.result})} :
              Commit(c.heap, r.cache,
                     [strategies EXCEPT ![slot] =
                        [cls |-> cls, versions |-> c.versions]],
                     call)
       ELSE Commit(r.heap, r.cache, strategies, call)
    /\ UNCHANGED <<BUNDLE_VERSION_FILE, version_file, registry, files,
                   st_mtime>>

Max(S) == CHOOSE m \in S : \A n \in S : n <= m

\* MtimeVersioning.get_version and HashVersioningBase.get_version
get_version(cls, bundle) ==
  IF cls = "mtime"
  THEN IF Len(bundle.paths) = 0
       THEN [raised |-> "ValueError", version |-> <<>>]
       ELSE IF \E i \in 1..Len(bundle.paths) : bundle.paths[i] \notin DOMAIN st_mtime
       THEN [raised |-> "OSError", version |-> <<>>]
       ELSE [raised |-> "none",
             version |-> Str(Max({st_mtime[bundle.paths[i]] \div 2 :
                                    i \in 1..Len(bundle.paths)}))]
  ELSE IF bundle.path \notin DOMAIN files
       THEN [raised |-> "IOError", version |-> <<>>]
       ELSE [raised |-> "none",
             version |-> get_hash(cls, files[bundle.path], ChunkSize)]

\* Lines 85-90: the versioned basename; raised is UnboundLocalError in the
\* branch that reads versioned_basename before assigning it.
versioned_name(basename, version) ==
  IF Has(basename, ".")
  THEN LET p == RPartition(basename, ".") IN
       [raised |-> "none", name |-> Join(<<".">>, <<p[1], version, p[3]>>)]
  ELSE [raised |-> "UnboundLocalError", name |-> <<>>]

\* A variant of the copy that passes over a missing source in silence.
shutil_copy_quiet(fs, src, dst) ==
  IF src \notin DOMAIN fs THEN [raised |-> "none", files |-> fs]
  ELSE IF src = dst THEN [raised |-> "Error", files |-> fs]
  ELSE [raised |-> "none", files |-> DictSet(fs, dst, fs[src])]

\* shutil.copy(src, dst) between regular files
shutil_copy(fs, src, dst) ==
  IF src \notin DOMAIN fs THEN [raised |-> "IOError", files |-> fs]
  ELSE IF src = dst THEN [raised |-> "Error", files |-> fs]
  ELSE [raised |-> "none", files |-> DictSet(fs, dst, fs[src])]

\* VersioningBase.update_bundle_version(self, bundle)
update_bundle_version(h, self, bundle) ==
  LET v == get_version(self.cls, bundle)
      sp == PathSplit(bundle.path)
      vb == versioned_name(sp[2], v.version)
      h1 == [h EXCEPT ![self.versions] =
               Cell(DictSet(h[self.versions].d, bundle.name, vb.name))]
      cp == shutil_copy(files, bundle.path, PathJoin(sp[1], vb.name))
  IN IF v.raised # "none"
     THEN [raised |-> v.raised, heap |-> h, files |-> files]
     ELSE IF vb.raised # "none"
     THEN [raised |-> vb.raised, heap |-> h, files |-> files]
     ELSE [raised |-> cp.raised, heap |-> h1, files |-> cp.files]

UpdateBundleVersion ==
  \E slot \in LiveStrategies, b \in registry :
  \E r \in {update_bundle_version(heap, strategies[slot], Bundles[b])} :
    /\ files' = r.files
    /\ Commit(r.heap, bundle_versions, strategies,
              [Call("update_bundle_version", r.raised) EXCEPT
                 !.slot = slot, !.bundle = b, !.cls = strategies[slot].cls])
    /\ UNCHANGED <<BUNDLE_VERSION_FILE, version_file, registry, st_mtime>>

(***************************************************************************)
(* The environment: the merge step writes a bundle's output file, source   *)
(* files are edited, and the versions file is replaced or removed.         *)
(***************************************************************************)
Env(op) == Commit(heap, bundle_versions, strategies, Call(op, "none"))

MergeBundle ==
  \E b \in registry : \E c \in Contents(b) :
    /\ files' = DictSet(files, Bundles[b].path, c)
    /\ Env("merge")
    /\ UNCHANGED <<BUNDLE_VERSION_FILE, version_file, registry, st_mtime>>

TouchSource ==
  \E f \in SourcePaths : \E m \in MTimes(f) :
    /\ st_mtime' = DictSet(st_mtime, f, m)
    /\ Env("touch")
    /\ UNCHANGED <<BUNDLE_VERSION_FILE, version_file, registry, files>>

ReplaceVersionFile(texts) ==
  \E t \in texts :
    /\ BUNDLE_VERSION_FILE = "versions.py"
    /\ version_file' = [readable |-> TRUE, text |-> t]
    /\ Env("replace_file")
    /\ UNCHANGED <<BUNDLE_VERSION_FILE, registry, files, st_mtime>>

RemoveVersionFile ==
  /\ BUNDLE_VERSION_FILE = "versions.py"
  /\ version_file' = [readable |-> FALSE, text |-> <<>>]
  /\ Env("remove_file")
  /\ UNCHANGED <<BUNDLE_VERSION_FILE, registry, files, st_mtime>>

(***************************************************************************)
(* Specifications.  Spec is the whole module.  SpecStore is the version    *)
(* store alone (the cache and the versions file), SpecUpdater one strategy *)
(* versioning bundles on a changing disk.                                  *)
(***************************************************************************)
EmptyDisk == [files |-> EmptyDict, st_mtime |-> EmptyDict]

Settings == {"None", "", "versions.py"}

\* A disk after the merge step ran: every output file and source file exists.
MergedDisk ==
  [files |-> [p \in {Bundles[b].path : b \in DOMAIN Bundles} |->
                LET b == CHOOSE x \in DOMAIN Bundles : Bundles[x].path = p
                IN CHOOSE c \in Contents(b) : TRUE],
   st_mtime |-> [f \in SourcePaths |-> CHOOSE m \in MTimes(f) : TRUE]]

Init == InitWith({"versions.py"}, {PlainText}, {{1, 2}}, {MergedDisk})

Next ==
  \/ GetBundleVersions
  \/ UpdateVersions
  \/ WriteVersions({EmptyDict})
  \/ NewStrategy(1..NumStrategies, {"md5", "mtime"})
  \/ UpdateBundleVersion
  \/ ReplaceVersionFile({<<>>})
  \/ RemoveVersionFile

Spec == Init /\ [][Next]_vars

InitStore == InitWith(Settings, ForeignTexts, {{1, 2}}, {EmptyDisk})

NextStore ==
  \/ GetBundleVersions
  \/ UpdateVersions
  \/ WriteVersions(SampleMappings)
  \/ ReplaceVersionFile(ForeignTexts)
  \/ RemoveVersionFile

SpecStore == InitStore /\ [][NextStore]_vars

InitUpdater == InitWith({"versions.py"}, {TrickyText}, Registries, {EmptyDisk})

NextUpdater ==
  \/ NewStrategy({1}, StrategyNames)
  \/ UpdateBundleVersion
  \/ MergeBundle
  \/ TouchSource

SpecUpdater == InitUpdater /\ [][NextUpdater]_vars

(***************************************************************************)
(* Properties of the version store (SpecStore).                            *)
(***************************************************************************)
\* The dict the global _bundle_versions refers to
Cache == heap[bundle_versions].d

Configured == BUNDLE_VERSION_FILE = "versions.py"

\* What loading the versions file as it is now would give
Loaded == ExecFile(version_file.text)

WriteReturned == last.op = "write_versions" /\ last.raised = "none"

\* C1: after write_versions(updates) returns, the BUNDLE_VERSIONS mapping in
\* the file is the cache as it was before the call merged with updates
\* (updates winning): the entries of the cache that updates does not name
\* are still in the file.  The code writes the entries of updates alone.
C1_FileHoldsMergedMapping ==
  [][(last'.op = "write_versions" /\ last'.raised = "none")
       => /\ ExecFile(version_file'.text).raised = "none"
          /\ ExecFile(version_file'.text).val =
               DictUpdate(heap[bundle_versions].d, last'.arg)]_vars

\* C2: a mapping M written by write_versions and then loaded by
\* update_versions comes back equal to M: when an update_versions call
\* follows a write_versions(M) call that returned, it does not raise and
\* the cache is M.
C2_WriteThenLoadRoundTrip ==
  [][(WriteReturned /\ last'.op = "update_versions")
       => /\ last'.raised = "none"
          /\ heap'[bundle_versions'].d = last.arg]_vars

\* C2 witness: the mapping with quotes, a backslash and a newline has been
\* written and loaded back (no other text of the model holds it).
C2_TrickyMappingLoaded ==
  /\ last.op = "update_versions"
  /\ last.raised = "none"
  /\ bundle_versions # 0
  /\ Cache = TrickyMapping
  /\ version_file.readable

\* C3 as stated: whenever the path is configured and the file cannot be
\* read, get_bundle_versions returns the empty mapping without raising and
\* leaves the cache empty.  It fails once the cache is loaded: the file is
\* not looked at again.
C3_UnreadableFileGivesEmpty ==
  [][(last'.op = "get_bundle_versions" /\ Configured /\ ~version_file.readable)
       => /\ last'.raised = "none"
          /\ last'.result # 0
          /\ heap'[last'.result].d = EmptyDict
          /\ heap'[bundle_versions'].d = EmptyDict]_vars

\* C3 amended: when the path is configured, the file cannot be read and no
\* cache exists yet, get_bundle_versions returns the empty mapping without
\* raising and leaves the cache empty.
C3_UnreadableFileGivesEmptyOnFirstLoad ==
  [][(/\ last'.op = "get_bundle_versions"
      /\ Configured
      /\ ~version_file.readable
      /\ bundle_versions = 0)
       => /\ last'.raised = "none"
          /\ last'.result # 0
          /\ heap'[last'.result].d = EmptyDict
          /\ bundle_versions' # 0
          /\ heap'[bundle_versions'].d = EmptyDict]_vars

\* C3 witness: a first get_bundle_versions call met a missing file.
C3_FirstLoadOfMissingFile ==
  /\ last.op = "get_bundle_versions"
  /\ last.loaded
  /\ Configured
  /\ ~version_file.readable
  /\ last.raised = "none"
  /\ bundle_versions # 0
  /\ Cache = EmptyDict

\* C9: with the path configured, once a cache exists a get_bundle_versions
\* call does not read the file: it returns the cached object, whose mapping
\* is what it was before the call, whatever the file holds now.
C9_LoadedOncePerProcess ==
  [][(last'.op = "get_bundle_versions" /\ Configured /\ bundle_versions # 0)
       => /\ ~last'.loaded
          /\ last'.raised = "none"
          /\ last'.result = bundle_versions'
          /\ bundle_versions' # 0
          /\ heap'[bundle_versions'].d = heap[bundle_versions].d]_vars

\* C9 witness: get_bundle_versions answered from the cache although the
\* file on disk now holds another mapping.
C9_CacheServedAfterFileChanged ==
  /\ last.op = "get_bundle_versions"
  /\ Configured
  /\ ~last.loaded
  /\ last.raised = "none"
  /\ version_file.readable
  /\ Loaded.raised = "none"
  /\ Loaded.val # Cache
  /\ Cache = PlainMapping

(***************************************************************************)
(* Properties of update_bundle_version (SpecUpdater).  They are about one  *)
(* call: the unprimed state is the state before it, the primed one after.  *)
(***************************************************************************)
\* The mapping of the strategy in slot i, before and after a step
VersionsOf(i) == heap[strategies[i].versions].d

VersionsAfter(i) == heap'[strategies'[i].versions].d

\* The step is a call of update_bundle_version
Updating == last'.op = "update_bundle_version"

\* The part of a path after its last "/", and the directory before it
BaseOf(p) == PathSplit(p)[2]

DirOf(p) == PathSplit(p)[1]

\* v is base with the token put between the part before its last "." and
\* the extension after it
IsVersionedName(v, base, token) ==
  \E i \in 1..Len(base) :
    /\ base[i] = "."
    /\ \A j \in (i + 1)..Len(base) : base[j] # "."
    /\ v = SubSeq(base, 1, i - 1) \o <<".">> \o token \o <<".">>
             \o SubSeq(base, i + 1, Len(base))

\* A file named v exists in directory dir of the disk fs, holding content
HoldsIn(fs, dir, v, content) ==
  \E p \in DOMAIN fs : DirOf(p) = dir /\ BaseOf(p) = v /\ fs[p] = content

ExistsIn(fs, dir, v) == \E p \in DOMAIN fs : DirOf(p) = dir /\ BaseOf(p) = v

\* The digest of a whole content, computed in one update
DigestOf(hash_method, content) ==
  HexDigest(hash_method, HashUpdate(hash_method, HashNew(hash_method), content))

\* A file the strategy class needs to version the bundle is missing
RequiredMissing(cls, bundle) ==
  \/ bundle.path \notin DOMAIN files
  \/ /\ cls = "mtime"
     /\ \E i \in 1..Len(bundle.paths) : bundle.paths[i] \notin DOMAIN st_mtime

\* C4: for a bundle whose basename has a '.', a call that returns records
\* the basename with the version token inserted before the extension, and a
\* file of that name exists in the directory of the output file.
C4_TokenInsertedBeforeExtension ==
  [][(Updating /\ last'.raised = "none" /\ Has(BaseOf(Bundles[last'.bundle].path), "."))
       => LET b == Bundles[last'.bundle]
              token == get_version(last'.cls, b).version
              v == VersionsAfter(last'.slot)[b.name]
          IN /\ IsVersionedName(v, BaseOf(b.path), token)
             /\ ExistsIn(files', DirOf(b.path), v)]_vars

\* C4 witness: a bundle whose basename has two dots was versioned, and one
\* in the root directory whose basename starts with the dot.
C4_DottedBundleVersioned ==
  /\ last.op = "update_bundle_version"
  /\ last.raised = "none"
  /\ last.bundle = 3
  /\ Bundles[4].name \in DOMAIN VersionsOf(last.slot)
  /\ \E p \in DOMAIN files : DirOf(p) = <<"/">> /\ Len(BaseOf(p)) > 2

\* C5: for a bundle whose basename has no '.', a call whose files are all
\* there returns, records the basename followed by '.' and the token, and
\* copies the output file to that name.  The code raises UnboundLocalError.
C5_TokenAppendedWithoutExtension ==
  [][(/\ Updating
      /\ ~Has(BaseOf(Bundles[last'.bundle].path), ".")
      /\ get_version(last'.cls, Bundles[last'.bundle]).raised = "none"
      /\ Bundles[last'.bundle].path \in DOMAIN files)
       => LET b == Bundles[last'.bundle]
              token == get_version(last'.cls, b).version
              v == BaseOf(b.path) \o <<".">> \o token
          IN /\ last'.raised = "none"
             /\ b.name \in DOMAIN VersionsAfter(last'.slot)
             /\ VersionsAfter(last'.slot)[b.name] = v
             /\ HoldsIn(files', DirOf(b.path), v, files[b.path])]_vars

\* C6: after a call on a hash strategy returns, the token in the recorded
\* name is the digest of the output file's content, a file of the recorded
\* name exists beside the output file with the same content, the output
\* file is unchanged, and the mapping holds bundle.name -> that name.
C6_HashVersionedCopy ==
  [][(Updating /\ last'.raised = "none" /\ last'.cls \in {"md5", "sha1"})
       => LET b == Bundles[last'.bundle]
              content == files[b.path]
              v == VersionsAfter(last'.slot)[b.name]
          IN /\ IsVersionedName(v, BaseOf(b.path), DigestOf(last'.cls, content))
             /\ HoldsIn(files', DirOf(b.path), v, content)
             /\ files'[b.path] = content]_vars

\* C6 witness: a sha1 strategy versioned an output file longer than a chunk.
C6_LongFileHashed ==
  /\ last.op = "update_bundle_version"
  /\ last.raised = "none"
  /\ last.cls = "sha1"
  /\ Len(files[Bundles[last.bundle].path]) > ChunkSize
  /\ Cardinality(DOMAIN files) > 1

\* C7: when a file the strategy needs for the bundle is missing, the call
\* raises, and the entries of all other bundles in the strategy's mapping
\* are what they were before the call.
C7_MissingFileRaisesAndSparesOthers ==
  [][(Updating /\ RequiredMissing(last'.cls, Bundles[last'.bundle]))
       => LET name == Bundles[last'.bundle].name
              before == VersionsOf(last'.slot)
              after == VersionsAfter(last'.slot)
          IN /\ last'.raised # "none"
             /\ DOMAIN after \ {name} = DOMAIN before \ {name}
             /\ \A k \in DOMAIN before \ {name} : after[k] = before[k]]_vars

\* C7 witness: an mtime strategy that had versioned the other bundle of the
\* run failed on a bundle whose output file is missing.
C7_FailedAfterOtherBundle ==
  /\ last.op = "update_bundle_version"
  /\ last.raised = "IOError"
  /\ last.cls = "mtime"
  /\ Bundles[last.bundle].path \notin DOMAIN files
  /\ \E o \in registry \ {last.bundle} :
       /\ Bundles[o].name \in DOMAIN VersionsOf(last.slot)
       /\ ExistsIn(files, DirOf(Bundles[o].path), VersionsOf(last.slot)[Bundles[o].name])

\* C10: a call of update_bundle_version that raises leaves the strategy's
\* mapping, the failing bundle's entry included, unchanged, so that every
\* recorded entry names a file that exists (no file is ever removed here).
\* The code sets the entry before the copy, so a failing copy leaves an
\* entry that names no file.
C10_FailedCallLeavesMapping ==
  [][(Updating /\ last'.raised # "none")
       => VersionsAfter(last'.slot) = VersionsOf(last'.slot)]_vars

(***************************************************************************)
(* Properties of the strategies' private mappings (Spec).                  *)
(***************************************************************************)
\* The step is a call on, or the construction into, slot i
OwnStep(i) ==
  /\ last'.op \in {"update_bundle_version", "new_strategy"}
  /\ last'.slot = i

\* C8: the mapping held by a strategy object is left unchanged by every
\* step that is not a call on that object (get_bundle_versions,
\* update_versions, write_versions, calls on and constructions of other
\* strategies, changes to the files), and update_bundle_version leaves the
\* process-wide cache as it was.
C8_StrategyMappingIsPrivate ==
  [][/\ \A i \in LiveStrategies :
          ~OwnStep(i) => /\ strategies'[i].versions # 0
                         /\ strategies'[i].cls = strategies[i].cls
                         /\ VersionsAfter(i) = VersionsOf(i)
     /\ Updating => /\ (bundle_versions' = 0) = (bundle_versions = 0)
                    /\ bundle_versions # 0
                         => heap'[bundle_versions'].d = heap[bundle_versions].d]_vars

\* C8 witness: two strategies and the cache hold three different mappings,
\* one strategy having recorded a bundle after write_versions replaced the
\* cache.
C8_ThreeDifferentMappings ==
  /\ LiveStrategies = 1..NumStrategies
  /\ bundle_versions # 0
  /\ \A i \in LiveStrategies : VersionsOf(i) # Cache
  /\ \E i, j \in LiveStrategies :
       /\ VersionsOf(i) # VersionsOf(j)
       /\ Bundles[1].name \in DOMAIN VersionsOf(i)
       /\ Bundles[1].name \notin DOMAIN VersionsOf(j)

====
